---- MODULE Spec2Model ----
(***************************************************************************)
(* PiicoDev SSD1306 driver (PiicoDev_SSD1306.py): the bit-packed frame     *)
(* buffer, the rasterisers that paint into it, the PBM importer, the       *)
(* time-series graph and the command protocol that initialises and         *)
(* refreshes the display over the I2C bus.                                 *)
(*                                                                         *)
(* The object `self` is the record built by Self; every method is an       *)
(* operator from that record (and its arguments) to the record after the   *)
(* call.  The I2C transport is the environment: a write succeeds iff the   *)
(* link is up (busUp) when it is attempted, and the link changes state     *)
(* at any moment between two handler steps (BusChange).  init_display and  *)
(* show, the two handlers whose only work is a sequence of bus writes,     *)
(* are modelled one write per step, so that every pattern of failed and    *)
(* successful writes is a behaviour; the drawing handlers run as one step  *)
(* (all the writes of one drawing call see the same link state).           *)
(*                                                                         *)
(* log, faulted, raised, initialised, pushed and lastOp are observation    *)
(* variables: the transactions the current call has attempted on the bus,  *)
(* whether one of them failed, the exception that escaped the call, and    *)
(* the call itself.                                                        *)
(***************************************************************************)
EXTENDS Integers, Sequences, FiniteSets, TLC

VARIABLES
    buffer,       \* self.buffer: bytearray(pages * WIDTH)
    comms_err,    \* self.comms_err
    char_cols,    \* self.char_cols: glyph table, empty until loaded
    fontPresent,  \* environment: font-pet-me-128.dat can be opened
    busUp,        \* environment: i2c.writeto_mem succeeds
    log,          \* bus transactions attempted by the current call
    faulted,      \* a bus write of the current call failed
    raised,       \* exception that escaped the current call ("none" if none)
    pc,           \* handler in progress: "idle", "init_display", "show"
    idx,          \* position in the command tuple of the handler in progress
    initialised,  \* init_display has completed at least once
    graph,        \* a Graph2D instance
    pushed,       \* every value passed to update, oldest first
    lastOp,       \* the most recent call: [op, args]
    calls         \* drawing calls made since the last fill

vars == <<buffer, comms_err, char_cols, fontPresent, busUp, log, faulted,
          raised, pc, idx, initialised, graph, pushed, lastOp, calls>>

---------------------------------------------------------------------------
(* Program constants *)

_SET_CONTRAST == 129
_SET_ENTIRE_ON == 164
_SET_NORM_INV == 166
_SET_DISP == 174
_SET_MEM_ADDR == 32
_SET_COL_ADDR == 33
_SET_PAGE_ADDR == 34
_SET_DISP_START_LINE == 64
_SET_SEG_REMAP == 160
_SET_MUX_RATIO == 168
_SET_IREF_SELECT == 173
_SET_COM_OUT_DIR == 192
_SET_DISP_OFFSET == 211
_SET_COM_PIN_CFG == 218
_SET_DISP_CLK_DIV == 213
_SET_PRECHARGE == 217
_SET_VCOM_DESEL == 219
_SET_CHARGE_PUMP == 141
BUFFER_START_ADDR == 128
WIDTH == 128
HEIGHT == 64
PAGE_EDGE == 8

\* Bounds of the model
MaxDrawCalls == 1     \* rasteriser calls between two fills
MaxCircCalls == 2     \* fill_rect and circ calls between two fills
MaxPushes == 7        \* update calls on the graph
MaxGraphWidth == 5    \* widths of the graphs tried: 1 .. MaxGraphWidth

\* self.pages = HEIGHT // PAGE_EDGE
Pages == HEIGHT \div PAGE_EDGE

BufferIndexes == 0 .. (Pages * WIDTH - 1)

---------------------------------------------------------------------------
(* Python integer operators *)

Pow2(k) == 2 ^ k

\* bit k (0 = least significant) of the natural number v
Bit(v, k) == (v \div Pow2(k)) % 2

RECURSIVE NatAnd(_, _)
NatAnd(a, b) ==
    IF a = 0 \/ b = 0 THEN 0
    ELSE (IF a % 2 = 1 /\ b % 2 = 1 THEN 1 ELSE 0)
         + 2 * NatAnd(a \div 2, b \div 2)

RECURSIVE NatOr(_, _)
NatOr(a, b) ==
    IF a = 0 THEN b
    ELSE IF b = 0 THEN a
    ELSE (IF a % 2 = 1 \/ b % 2 = 1 THEN 1 ELSE 0)
         + 2 * NatOr(a \div 2, b \div 2)

\* Python's a & b with at least one operand non-negative: the other one is
\* read in two's complement (its low 16 bits; every operand here is within
\* -32768 .. 32767).
PyAnd(a, b) == NatAnd(a % 65536, b % 65536)

\* Python's a | b on non-negative operands
PyOr(a, b) == NatOr(a, b)

\* Python's ~a
PyInvert(a) == (-a) - 1

\* Python's a << k and a >> k
PyShl(a, k) == a * Pow2(k)
PyShr(a, k) == a \div Pow2(k)

---------------------------------------------------------------------------
(* The object *)

NoGlyphs == [ch \in {} |-> <<>>]

Self ==
    [buffer |-> buffer, comms_err |-> comms_err, char_cols |-> char_cols,
     log |-> log, faulted |-> faulted, raised |-> raised]

\* the object as a handler finds it on entry
Entry == [Self EXCEPT !.log = <<>>, !.faulted = FALSE, !.raised = "none"]

Commit(r) ==
    /\ buffer' = r.buffer
    /\ comms_err' = r.comms_err
    /\ char_cols' = r.char_cols
    /\ log' = r.log
    /\ faulted' = r.faulted
    /\ raised' = r.raised

\* an argument of write_cmd: an int, or any other object (the bytearray)
IntArg(n) == [isInt |-> TRUE, val |-> n]
ObjArg(v) == [isInt |-> FALSE, val |-> v]

Txn(register, payload) == [reg |-> register, data |-> payload]

\* write_cmd with an except clause that records nothing
WriteCmdNoFlag(self, cmd) ==
    IF cmd.isInt /\ cmd.val \in 0 .. 255
    THEN LET sent == [self EXCEPT
                        !.log = Append(@, Txn(BUFFER_START_ADDR, <<cmd.val>>))]
         IN  IF busUp
             THEN [sent EXCEPT !.comms_err = FALSE]
             ELSE [sent EXCEPT !.faulted = TRUE]
    ELSE self

\* write_cmd: bytes([cmd]) raises for anything but an int in 0..255, inside
\* the try; writeto_mem raises when the transfer fails.  The bare except
\* catches both.
WriteCmd(self, cmd) ==
    IF cmd.isInt /\ cmd.val \in 0 .. 255
    THEN LET sent == [self EXCEPT
                        !.log = Append(@, Txn(BUFFER_START_ADDR, <<cmd.val>>))]
         IN  IF busUp
             THEN [sent EXCEPT !.comms_err = FALSE]
             ELSE [sent EXCEPT !.comms_err = TRUE, !.faulted = TRUE]
    ELSE [self EXCEPT !.comms_err = TRUE]

\* _set_pos
SetPos(self, col, page) ==
    LET c1 == PyAnd(col * 2, 15)
        c2 == PyShr(col, 3)
        s1 == WriteCmd(self, IntArg(PyOr(176, page)))
        s2 == WriteCmd(s1, IntArg(PyOr(0, c1)))
    IN  WriteCmd(s2, IntArg(PyOr(16, c2)))

\* fill
Fill(self, c) ==
    [self EXCEPT !.buffer = [i \in BufferIndexes |-> IF c = 0 THEN 0 ELSE 255]]

\* pixel that does not wrap its coordinates
PixelNoWrap(self, x, y, c) ==
    LET page == y \div PAGE_EDGE
        offset == y % PAGE_EDGE
        i == (x + page * WIDTH) % (Pages * WIDTH)
        b == IF c # 0
             THEN PyOr(self.buffer[i], PyShl(1, offset))
             ELSE PyAnd(self.buffer[i], PyInvert(PyShl(1, offset)))
    IN  SetPos([self EXCEPT !.buffer[i] = b], x % WIDTH, page % Pages)

\* pixel
Pixel(self, x, y, c) ==
    LET xw == PyAnd(x, WIDTH - 1)
        yw == PyAnd(y, HEIGHT - 1)
        page == yw \div PAGE_EDGE
        offset == yw % PAGE_EDGE
        i == xw + page * WIDTH
        b == IF c # 0
             THEN PyOr(self.buffer[i], PyShl(1, offset))
             ELSE PyAnd(self.buffer[i], PyInvert(PyShl(1, offset)))
    IN  SetPos([self EXCEPT !.buffer[i] = b], xw, page)

---------------------------------------------------------------------------
(* Rasterisers.  A drawing routine touches the object only through
   self.pixel, so each is modelled by the sequence of pixel calls <<x, y, c>>
   it makes, in the order it makes them; Paint runs those calls. *)

RECURSIVE PaintRange(_, _, _, _)
PaintRange(self, pixelCalls, lo, hi) ==
    IF lo > hi THEN self
    ELSE IF lo = hi
         THEN Pixel(self, pixelCalls[lo][1], pixelCalls[lo][2], pixelCalls[lo][3])
         ELSE LET mid == (lo + hi) \div 2
                  left == PaintRange(self, pixelCalls, lo, mid)
              IN  \* an exception in one call would end the routine
                  IF left.raised = "none"
                  THEN PaintRange(left, pixelCalls, mid + 1, hi)
                  ELSE left

\* the calls of pixelCalls, first to last
Paint(self, pixelCalls) == PaintRange(self, pixelCalls, 1, Len(pixelCalls))

Abs(n) == IF n < 0 THEN -n ELSE n

\* One pass of line's while loop, on the loop's variables.  err2 is twice
\* the source's err (err = dx/2 is a float that is a multiple of 1/2;
\* doubling keeps every comparison exact).  out collects the pixel calls.
LinePass(st, dx, dy, ystep, steep, c) ==
    LET call == IF steep THEN <<st.y1, st.x1, c>> ELSE <<st.x1, st.y1, c>>
        e == st.err2 - 2 * dy
    IN  IF e < 0
        THEN [x1 |-> st.x1 + 1, y1 |-> st.y1 + ystep, err2 |-> e + 2 * dx,
              out |-> Append(st.out, call)]
        ELSE [x1 |-> st.x1 + 1, y1 |-> st.y1, err2 |-> e,
              out |-> Append(st.out, call)]

\* while x1 <= x2: at most n passes of the loop (x1 grows by one a pass, so
\* x2 - x1 + 1 passes end it)
RECURSIVE LineLoop(_, _, _, _, _, _, _, _)
LineLoop(st, n, x2, dx, dy, ystep, steep, c) ==
    IF n <= 0 \/ ~(st.x1 <= x2) THEN st
    ELSE IF n = 1 THEN LinePass(st, dx, dy, ystep, steep, c)
    ELSE LET half == n \div 2
             first == LineLoop(st, half, x2, dx, dy, ystep, steep, c)
         IN  IF first.x1 <= x2
             THEN LineLoop(first, n - half, x2, dx, dy, ystep, steep, c)
             ELSE first

\* line whose loop stops one short of the far endpoint
LineOpenEnded(x1, y1, x2, y2, c) ==
    LET steep == Abs(y2 - y1) > Abs(x2 - x1)
        a1 == IF steep THEN y1 ELSE x1
        b1 == IF steep THEN x1 ELSE y1
        a2 == IF steep THEN y2 ELSE x2
        b2 == IF steep THEN x2 ELSE y2
        swap == a1 > a2
        p1 == IF swap THEN a2 ELSE a1
        q1 == IF swap THEN b2 ELSE b1
        p2 == IF swap THEN a1 ELSE a2
        q2 == IF swap THEN b1 ELSE b2
        dx == p2 - p1
        dy == Abs(q2 - q1)
        ystep == IF q1 < q2 THEN 1 ELSE -1
        st == [x1 |-> p1, y1 |-> q1, err2 |-> dx, out |-> <<>>]
    IN  LineLoop(st, dx, p2 - 1, dx, dy, ystep, steep, c).out

\* line
Line(x1, y1, x2, y2, c) ==
    LET steep == Abs(y2 - y1) > Abs(x2 - x1)
        \* if steep: swap x/y
        a1 == IF steep THEN y1 ELSE x1
        b1 == IF steep THEN x1 ELSE y1
        a2 == IF steep THEN y2 ELSE x2
        b2 == IF steep THEN x2 ELSE y2
        \* if x1 > x2: swap start/end
        swap == a1 > a2
        p1 == IF swap THEN a2 ELSE a1
        q1 == IF swap THEN b2 ELSE b1
        p2 == IF swap THEN a1 ELSE a2
        q2 == IF swap THEN b1 ELSE b2
        dx == p2 - p1
        dy == Abs(q2 - q1)
        ystep == IF q1 < q2 THEN 1 ELSE -1
        st == [x1 |-> p1, y1 |-> q1, err2 |-> dx, out |-> <<>>]
    IN  LineLoop(st, dx + 1, p2, dx, dy, ystep, steep, c).out

\* hline
HLine(x, y, l, c) == Line(x, y, x + l, y, c)

\* vline
VLine(x, y, h, c) == Line(x, y, x, y + h, c)

\* rect
Rect(x, y, w, h, c) ==
    HLine(x, y, w, c) \o HLine(x, y + h, w, c)
        \o VLine(x, y, h, c) \o VLine(x + w, y, h, c)

\* fill_rect: for i in range(y, y + h)
RECURSIVE FillRectLoop(_, _, _, _, _)
FillRectLoop(x, i, stop, w, c) ==
    IF i < stop
    THEN HLine(x, i, w, c) \o FillRectLoop(x, i + 1, stop, w, c)
    ELSE <<>>

FillRect(x, y, w, h, c) == FillRectLoop(x, y, y + h, w, c)

\* circ's test with the disc closed (<= r**2)
CircTestClosed(d, r, t) ==
    IF t # 0
    THEN d <= r * r
    ELSE d <= r * r /\ d >= (r - r * t - 1) * (r - r * t - 1)

\* circ's test on d = (i-x)**2 + (j-y)**2: the filled branch (t truthy) and
\* the ring branch
CircTest(d, r, t) ==
    IF t # 0
    THEN d < r * r
    ELSE d < r * r /\ d >= (r - r * t - 1) * (r - r * t - 1)

\* circ: for i in range(x-r, x+r+1): for j in range(y-r, y+r+1); the filled
\* branch paints with the literal 1, the ring branch with c
RECURSIVE CircLoop(_, _, _, _, _, _, _)
CircLoop(x, y, r, t, c, i, j) ==
    IF i >= x + r + 1 THEN <<>>
    ELSE IF j >= y + r + 1 THEN CircLoop(x, y, r, t, c, i + 1, y - r)
    ELSE (IF CircTest((i - x) * (i - x) + (j - y) * (j - y), r, t)
          THEN << <<i, j, IF t # 0 THEN 1 ELSE c>> >>
          ELSE <<>>)
         \o CircLoop(x, y, r, t, c, i, j + 1)

Circ(x, y, r, t, c) == CircLoop(x, y, r, t, c, x - r, y - r)

---------------------------------------------------------------------------
(* Text *)

\* font-pet-me-128.dat: 95 glyphs of 8 column bytes.  The content is not
\* part of the repository; any 760 bytes do.
FontFile == [k \in 0 .. 759 |-> (k * 7 + 3) % 256]

\* get_char_cols: the table is built on the first call that finds the file
GetCharCols(self) ==
    IF self.char_cols = NoGlyphs
    THEN IF fontPresent
         THEN [self EXCEPT !.char_cols =
                  [ch \in 32 .. 126 |->
                      [col \in 1 .. 8 |-> FontFile[(ch - 32) * 8 + (col - 1)]]]]
         ELSE self    \* except FileNotFoundError: print(...)
    ELSE self

\* text.  text is the sequence of the string's character codes.
\*   text_columns.append(self.char_cols[char]) raises KeyError for a char
\*   that is not a key; each entry appended is the glyph's LIST of columns,
\*   so `column & 1 << cy` raises TypeError the first time the two bounds
\*   tests before it pass.
Text(self, text, x, y, c) ==
    LET s0 == GetCharCols(self)
    IN  IF \E k \in 1 .. Len(text) : text[k] \notin DOMAIN s0.char_cols
        THEN [s0 EXCEPT !.raised = "KeyError"]
        ELSE IF \E cx \in 0 .. Len(text) - 1, cy \in 0 .. PAGE_EDGE - 1 :
                    x + cx < WIDTH /\ y + cy < HEIGHT
             THEN [s0 EXCEPT !.raised = "TypeError"]
             ELSE s0

---------------------------------------------------------------------------
(* PBM import *)

\* the pixel calls of load_pbm's inner loop for one byte: bits from..7
RECURSIVE PbmBits(_, _, _, _)
PbmBits(data, byte, bit, c) ==
    IF bit >= PAGE_EDGE THEN <<>>
    ELSE LET x_coord == ((8 - bit) + (byte * 8)) % WIDTH
             y_coord == (byte * 8) \div WIDTH
         IN  (IF PyAnd(data[byte + 1], PyShl(1, bit)) # 0
                 /\ x_coord < WIDTH /\ y_coord < HEIGHT
              THEN << <<x_coord, y_coord, c>> >>
              ELSE <<>>)
             \o PbmBits(data, byte, bit + 1, c)

\* the pixel calls of load_pbm's outer loop for bytes lo..hi
RECURSIVE PbmBytes(_, _, _, _)
PbmBytes(data, lo, hi, c) ==
    IF lo > hi THEN <<>>
    ELSE IF lo = hi THEN PbmBits(data, lo, 0, c)
    ELSE LET mid == (lo + hi) \div 2
         IN  PbmBytes(data, lo, mid, c) \o PbmBytes(data, mid + 1, hi, c)

Min(a, b) == IF a < b THEN a ELSE b

\* load_pbm.  file = [exists, magic, data]: whether open() finds it, its
\* first line, and what file.read() returns after the header lines.
\*   for byte in range(WIDTH // PAGE_EDGE * HEIGHT): data_piicodev[byte]
\*   raises IndexError at the first byte past the data; only
\*   FileNotFoundError is caught.
LoadPbm(self, file, c) ==
    IF ~file.exists THEN self
    ELSE IF file.magic # "P4" THEN self
    ELSE LET total == (WIDTH \div PAGE_EDGE) * HEIGHT
             have == Min(total, Len(file.data))
             painted == Paint(self, PbmBytes(file.data, 0, have - 1, c))
         IN  IF have < total
             THEN [painted EXCEPT !.raised = "IndexError"]
             ELSE painted

---------------------------------------------------------------------------
(* Graph2D *)

\* Graph2D.__init__.  m and offset are the source's floats, kept as exact
\* fractions <<numerator, denominator>>.
Graph2D(origin_x, origin_y, width, height, min_value, max_value, c, bars) ==
    [origin_x |-> origin_x, origin_y |-> origin_y, width |-> width,
     height |-> height, min_value |-> min_value, max_value |-> max_value,
     c |-> c,
     m |-> <<1 - height, max_value - min_value>>,
     offset |-> <<origin_y * (max_value - min_value) - (1 - height) * min_value,
                  max_value - min_value>>,
     bars |-> bars, data |-> <<>>]

\* Python's round() of the fraction n/d: to nearest, ties to even
PyRound(n, d) ==
    LET nn == IF d < 0 THEN -n ELSE n
        dd == IF d < 0 THEN -d ELSE d
        q == nn \div dd
        r == nn % dd
    IN  IF 2 * r < dd THEN q
        ELSE IF 2 * r > dd THEN q + 1
        ELSE IF q % 2 = 0 THEN q ELSE q + 1

\* update's list handling, dropping when the list is already full
GraphInsertEarlyDrop(g, value) ==
    LET grown == <<value>> \o g.data
    IN  IF Len(grown) >= g.width
        THEN SubSeq(grown, 1, Len(grown) - 1)
        ELSE grown

\* graph.data.insert(0, value); if len(graph.data) > graph.width: pop()
GraphInsert(g, value) ==
    LET grown == <<value>> \o g.data
    IN  IF Len(grown) > g.width
        THEN SubSeq(grown, 1, Len(grown) - 1)
        ELSE grown

\* for idx in range(from, graph.origin_y + 1), at column x
RECURSIVE BarCalls(_, _, _)
BarCalls(g, x, from) ==
    IF from >= g.origin_y + 1 THEN <<>>
    ELSE (IF g.origin_x <= x /\ x < g.origin_x + g.width
             /\ g.origin_y - g.height < from /\ from <= g.origin_y
          THEN << <<x, from, g.c>> >>
          ELSE <<>>)
         \o BarCalls(g, x, from + 1)

\* for value in graph.data, from sample k on; the column of sample k is
\* origin_x + width - 1 - (k - 1)
RECURSIVE SampleCalls(_, _, _)
SampleCalls(g, data, k) ==
    IF k > Len(data) THEN <<>>
    ELSE LET x == g.origin_x + g.width - 1 - (k - 1)
             y == PyRound(g.m[1] * data[k] * g.offset[2] + g.offset[1] * g.m[2],
                          g.m[2] * g.offset[2])
         IN  (IF g.bars
              THEN BarCalls(g, x, y)
              ELSE IF g.origin_x <= x /\ x < g.origin_x + g.width
                      /\ g.origin_y - g.height < y /\ y <= g.origin_y
                   THEN << <<x, y, g.c>> >>
                   ELSE <<>>)
             \o SampleCalls(g, data, k + 1)

\* update
Update(self, g, value) ==
    LET data == GraphInsert(g, value)
    IN  [self |-> Paint(self, SampleCalls(g, data, 1)),
         graph |-> [g EXCEPT !.data = data]]

---------------------------------------------------------------------------
(* Display protocol *)

\* the tuple init_display iterates over
InitDisplayCmds ==
    << _SET_DISP,
       _SET_MEM_ADDR,
       0,
       _SET_DISP_START_LINE,
       PyOr(_SET_SEG_REMAP, 1),
       _SET_MUX_RATIO,
       HEIGHT - 1,
       PyOr(_SET_COM_OUT_DIR, 8),
       _SET_DISP_OFFSET,
       0,
       _SET_COM_PIN_CFG,
       18,
       _SET_DISP_CLK_DIV,
       128,
       _SET_PRECHARGE,
       241,
       _SET_VCOM_DESEL,
       48,
       _SET_CONTRAST,
       255,
       _SET_ENTIRE_ON,
       _SET_NORM_INV,
       _SET_IREF_SELECT,
       48,
       _SET_CHARGE_PUMP,
       20,
       PyOr(_SET_DISP, 1) >>

\* one pass of init_display's loop whose write_cmd lets the failure escape
InitDisplayStepAbort(self, i) ==
    LET r == WriteCmd(self, IntArg(InitDisplayCmds[i]))
    IN  IF r.comms_err
        THEN [self |-> [r EXCEPT !.raised = "OSError"], next |-> 0]
        ELSE [self |-> r,
              next |-> IF i < Len(InitDisplayCmds) THEN i + 1 ELSE 0]

\* one pass of init_display's loop: self.write_cmd(cmd); next is the
\* position of the following command, 0 when the tuple is exhausted
InitDisplayStep(self, i) ==
    [self |-> WriteCmd(self, IntArg(InitDisplayCmds[i])),
     next |-> IF i < Len(InitDisplayCmds) THEN i + 1 ELSE 0]

\* the tuple show iterates over: six ints and the bytearray
ShowCmds(self) ==
    << IntArg(_SET_COL_ADDR),
       IntArg(0),
       IntArg(WIDTH - 1),
       IntArg(_SET_PAGE_ADDR),
       IntArg(0),
       IntArg(Pages - 1),
       ObjArg(self.buffer) >>

\* one pass of show's loop: self.write_cmd(cmd)
ShowStep(self, i) ==
    [self |-> WriteCmd(self, ShowCmds(self)[i]),
     next |-> IF i < Len(ShowCmds(self)) THEN i + 1 ELSE 0]

---------------------------------------------------------------------------
(* PBM files tried: 8x8 patterns, as sets of <<column, row>>, packed the
   standard way (a row is a byte, column 0 its most significant bit) *)

Patterns ==
    << { <<0, 0>> },
       { <<k, k>> : k \in 0 .. 7 },
       { <<col, row>> \in (0 .. 7) \X (0 .. 7) : (col + row) % 2 = 0 } >>

PackRow(pattern, row) ==
    LET B(col) == IF <<col, row>> \in pattern THEN Pow2(7 - col) ELSE 0
    IN  B(0) + B(1) + B(2) + B(3) + B(4) + B(5) + B(6) + B(7)

\* an 8x8 image: eight data bytes, one per row
Pack8(pattern) == [r \in 1 .. 8 |-> PackRow(pattern, r - 1)]

\* the pattern in the top left corner of a surface-sized image: rows of
\* WIDTH / 8 bytes
PackSurface(pattern) ==
    [k \in 1 .. (WIDTH \div 8) * HEIGHT |->
        IF (k - 1) % (WIDTH \div 8) = 0 /\ (k - 1) \div (WIDTH \div 8) < 8
        THEN PackRow(pattern, (k - 1) \div (WIDTH \div 8))
        ELSE 0]

\* file = <<pattern number, kind>>
FileKinds == {"8x8", "surface", "badmagic", "missing"}

PbmFile(file) ==
    [exists |-> file[2] # "missing",
     magic |-> IF file[2] = "badmagic" THEN "P1" ELSE "P4",
     data |-> IF file[2] = "surface" THEN PackSurface(Patterns[file[1]])
              ELSE Pack8(Patterns[file[1]])]

---------------------------------------------------------------------------
(* Actions *)

Idle == pc = "idle"

Call(name, arguments) == lastOp' = [op |-> name, args |-> arguments]

\* the I2C link goes down or comes back
BusChange ==
    /\ busUp' = ~busUp
    /\ UNCHANGED <<buffer, comms_err, char_cols, fontPresent, log, faulted,
                   raised, pc, idx, initialised, graph, pushed, lastOp, calls>>

FillCall(c) ==
    /\ Idle
    /\ Commit(Fill(Entry, c))
    /\ Call("fill", <<c>>)
    /\ calls' = 0
    /\ UNCHANGED <<fontPresent, busUp, pc, idx, initialised, graph, pushed>>

InitDisplayCall ==
    /\ Idle
    /\ Commit(Entry)
    /\ Call("init_display", <<>>)
    /\ pc' = "init_display"
    /\ idx' = 1
    /\ UNCHANGED <<fontPresent, busUp, initialised, graph, pushed, calls>>

InitDisplayWrite ==
    /\ pc = "init_display"
    /\ LET r == InitDisplayStep(Self, idx)
       IN  /\ Commit(r.self)
           /\ idx' = r.next
           /\ pc' = IF r.next = 0 THEN "idle" ELSE pc
           /\ initialised' = (initialised \/ (r.next = 0 /\ r.self.raised = "none"))
    /\ UNCHANGED <<fontPresent, busUp, graph, pushed, lastOp, calls>>

ShowCall ==
    /\ Idle
    /\ Commit(Entry)
    /\ Call("show", <<>>)
    /\ pc' = "show"
    /\ idx' = 1
    /\ UNCHANGED <<fontPresent, busUp, initialised, graph, pushed, calls>>

ShowWrite ==
    /\ pc = "show"
    /\ LET r == ShowStep(Self, idx)
       IN  /\ Commit(r.self)
           /\ idx' = r.next
           /\ pc' = IF r.next = 0 THEN "idle" ELSE pc
    /\ UNCHANGED <<fontPresent, busUp, initialised, graph, pushed, lastOp, calls>>

\* a drawing call: runs as one step on the idle object
Draw(name, arguments, r) ==
    /\ Idle
    /\ Commit(r)
    /\ Call(name, arguments)
    /\ UNCHANGED <<fontPresent, busUp, pc, idx, initialised, graph, pushed>>

PixelCall(x, y, c) ==
    /\ Draw("pixel", <<x, y, c>>, Pixel(Entry, x, y, c))
    /\ UNCHANGED calls

LineCall(x1, y1, x2, y2, c) ==
    /\ Draw("line", <<x1, y1, x2, y2, c>>, Paint(Entry, Line(x1, y1, x2, y2, c)))
    /\ calls' = calls + 1

HLineCall(x, y, l, c) ==
    /\ Draw("hline", <<x, y, l, c>>, Paint(Entry, HLine(x, y, l, c)))
    /\ calls' = calls + 1

VLineCall(x, y, h, c) ==
    /\ Draw("vline", <<x, y, h, c>>, Paint(Entry, VLine(x, y, h, c)))
    /\ calls' = calls + 1

RectCall(x, y, w, h, c) ==
    /\ Draw("rect", <<x, y, w, h, c>>, Paint(Entry, Rect(x, y, w, h, c)))
    /\ calls' = calls + 1

FillRectCall(x, y, w, h, c) ==
    /\ Draw("fill_rect", <<x, y, w, h, c>>, Paint(Entry, FillRect(x, y, w, h, c)))
    /\ calls' = calls + 1

CircCall(x, y, r, t, c) ==
    /\ Draw("circ", <<x, y, r, t, c>>, Paint(Entry, Circ(x, y, r, t, c)))
    /\ calls' = calls + 1

TextCall(text, x, y, c) ==
    /\ Draw("text", <<text, x, y, c>>, Text(Entry, text, x, y, c))
    /\ calls' = calls + 1

LoadPbmCall(file, c) ==
    /\ Draw("load_pbm", <<file, c>>, LoadPbm(Entry, PbmFile(file), c))
    /\ calls' = calls + 1

UpdateCall(value) ==
    /\ Idle
    /\ Len(pushed) < MaxPushes
    /\ LET r == Update(Entry, graph, value)
       IN  /\ Commit(r.self)
           /\ graph' = r.graph
    /\ pushed' = Append(pushed, value)
    /\ Call("update", <<value>>)
    /\ UNCHANGED <<fontPresent, busUp, pc, idx, initialised, calls>>

---------------------------------------------------------------------------
(* Initial state: PiicoDev_SSD1306.__init__ over FrameBuffer.__init__ *)

\* Graph2D() with its default arguments
DefaultGraph == Graph2D(0, HEIGHT - 1, WIDTH, HEIGHT, 0, 255, 1, FALSE)

Constructed ==
    /\ buffer = [i \in BufferIndexes |-> 0]
    /\ comms_err = FALSE
    /\ char_cols = NoGlyphs
    /\ log = <<>>
    /\ faulted = FALSE
    /\ raised = "none"
    /\ pc = "idle"
    /\ idx = 0
    /\ initialised = FALSE
    /\ pushed = <<>>
    /\ lastOp = [op |-> "__init__", args |-> <<>>]
    /\ calls = 0

Init ==
    /\ Constructed
    /\ busUp = TRUE
    /\ fontPresent = TRUE
    /\ graph = DefaultGraph

Next ==
    \/ BusChange
    \/ \E c \in {0, 1} : FillCall(c)
    \/ InitDisplayCall
    \/ InitDisplayWrite
    \/ ShowCall
    \/ ShowWrite

Spec == Init /\ [][Next]_vars

---------------------------------------------------------------------------
(* Pixel addressing: pixel calls with wrapped, negative and in-range
   coordinates, on surfaces left by fill and by earlier pixel calls *)

PixelXs == {-1, 0, WIDTH}
PixelYs == {-1, 0, HEIGHT}

NextPixel ==
    \/ BusChange
    \/ \E c \in {0, 1} : FillCall(c)
    \/ \E x \in PixelXs, y \in PixelYs, c \in {0, 1} : PixelCall(x, y, c)

SpecPixel == Init /\ [][NextPixel]_vars

---------------------------------------------------------------------------
(* Rasterisers: one call of each shape on a filled surface *)

\* endpoints of the lines tried: the corner, points across a page boundary,
\* and the far ends of the first row and the first column
LineEnds == { <<0, 0>>, <<10, 0>>, <<0, 10>>, <<10, 10>>,
              <<WIDTH - 1, 0>>, <<0, HEIGHT - 1>> }
Colours == {0, 1}

NextDraw ==
    \/ BusChange
    \/ \E c \in Colours : FillCall(c)
    \/ \E p \in LineEnds, q \in LineEnds :
          calls < MaxDrawCalls /\ LineCall(p[1], p[2], q[1], q[2], 1)
    \/ \E y \in {0, HEIGHT - 1}, l \in {0, WIDTH - 1} :
          calls < MaxDrawCalls /\ HLineCall(0, y, l, 0)
    \/ \E x \in {0, WIDTH - 1}, h \in {0, HEIGHT - 1} :
          calls < MaxDrawCalls /\ VLineCall(x, 0, h, 0)
    \/ \E w \in {0, 3}, c \in Colours :
          calls < MaxDrawCalls /\ RectCall(4, 4, w, 2, c)
    \/ \E w \in {0, 3}, c \in Colours :
          calls < MaxDrawCalls /\ FillRectCall(4, 4, w, 2, c)
    \/ \E x \in {0, 5}, t \in {0, 1} :
          calls < MaxDrawCalls /\ CircCall(x, 5, 2, t, 0)

SpecDraw == Init /\ [][NextDraw]_vars

---------------------------------------------------------------------------
(* Circles: up to MaxCircCalls calls of fill_rect and circ after a fill, so
   that a circle is drawn on a surface fill_rect has just modified *)

NextCirc ==
    \/ BusChange
    \/ \E c \in Colours : FillCall(c)
    \/ \E w \in {0, 3}, c \in Colours :
          calls < MaxCircCalls /\ FillRectCall(4, 4, w, 2, c)
    \/ \E x \in {0, 5}, r \in {0, 1}, t \in {0, 1}, c \in Colours :
          calls < MaxCircCalls /\ CircCall(x, 5, r, t, c)

SpecCirc == Init /\ [][NextCirc]_vars

---------------------------------------------------------------------------
(* Text and PBM import: one call on a filled surface, with the font file
   present or missing *)

Texts == { <<>>, <<65>>, <<72, 105>>, <<9>> }

InitImport ==
    /\ Constructed
    /\ busUp = TRUE
    /\ fontPresent \in BOOLEAN
    /\ graph = DefaultGraph

NextImport ==
    \/ BusChange
    \/ \E c \in Colours : FillCall(c)
    \/ \E text \in Texts, x \in {0, WIDTH}, y \in {0, HEIGHT}, c \in Colours :
          calls < MaxDrawCalls /\ TextCall(text, x, y, c)
    \/ \E n \in 1 .. Len(Patterns), kind \in FileKinds, c \in Colours :
          calls < MaxDrawCalls /\ LoadPbmCall(<<n, kind>>, c)

SpecImport == InitImport /\ [][NextImport]_vars

---------------------------------------------------------------------------
(* Graph: up to MaxPushes updates of a graph of width 1 .. MaxGraphWidth.
   The scale (height 5 over the values 0 .. 8) makes m = -1/2, so that
   every float of the source is exact. *)

GraphValues == {7, 20}

InitGraph ==
    /\ Constructed
    /\ busUp = TRUE
    /\ fontPresent = TRUE
    /\ \E w \in 1 .. MaxGraphWidth, bars \in BOOLEAN :
          graph = Graph2D(0, HEIGHT - 1, w, 5, 0, 8, 1, bars)

NextGraph ==
    \/ BusChange
    \/ \E v \in GraphValues : UpdateCall(v)

SpecGraph == InitGraph /\ [][NextGraph]_vars

---------------------------------------------------------------------------
(* Properties *)

\* the pixel at column x, row y of a buffer: bit (y mod 8) of the byte at
\* x + (y div 8) * width
GetPixel(buf, x, y) == Bit(buf[x + (y \div 8) * 128], y % 8)

Blank == [i \in 0 .. 1023 |-> 0]

\* the step is a call of the drawing routine `name`
DrawStep(name) ==
    /\ pc = "idle"
    /\ pc' = "idle"
    /\ busUp' = busUp
    /\ lastOp'.op = name

\* C1: show after init_display, every bus write succeeding, emits the column
\* range (0x21, 0, 127), the page range (0x22, 0, 7) and then the whole
\* buffer as one data block of 1024 bytes equal to the buffer.
C1_ShowStreamsBuffer ==
    (pc = "idle" /\ lastOp.op = "show" /\ initialised /\ ~faulted) =>
        /\ Len(log) = 7
        /\ [k \in 1 .. 6 |-> log[k].data] =
              << <<33>>, <<0>>, <<127>>, <<34>>, <<0>>, <<7>> >>
        /\ Len(log[7].data) = 1024
        /\ \A i \in 1 .. 1024 : log[7].data[i] = buffer[i - 1]

\* show has completed after init_display, no bus write having failed: six
\* one-byte writes went out, no data block, and the error flag is set
C1_Witness ==
    /\ pc = "idle"
    /\ lastOp.op = "show"
    /\ initialised
    /\ ~faulted
    /\ Len(log) = 6
    /\ \A k \in 1 .. 6 : Len(log[k].data) = 1
    /\ comms_err
    /\ buffer[0] = 255

\* C2: a drawing call issues no bus transaction and leaves the bus error
\* flag as it was.
C2_DrawingIsLocal ==
    [][ (\E name \in {"line", "hline", "vline", "rect", "fill_rect", "circ"} :
            DrawStep(name))
        => (log' = <<>> /\ comms_err' = comms_err) ]_vars

\* line(0, 0, 10, 0, true) with the bus down: three writes for each of the
\* eleven pixels have been attempted and the error flag has been set
C2_Witness ==
    /\ lastOp = [op |-> "line", args |-> <<0, 0, 10, 0, 1>>]
    /\ Len(log) = 33
    /\ faulted
    /\ comms_err

\* C3: a show during which a bus write failed returns normally, leaves the
\* buffer as it found it and ends with the bus error flag set.
C3_FaultyShowKeepsBufferSetsFlag ==
    [][ (pc = "show" \/ pc' = "show") =>
           /\ buffer' = buffer
           /\ raised' = "none"
           /\ (pc' = "idle" /\ faulted') => comms_err' ]_vars

C3_Witness ==
    /\ pc = "idle"
    /\ lastOp.op = "show"
    /\ faulted
    /\ comms_err
    /\ raised = "none"
    /\ Len(log) = 6
    /\ buffer[0] = 255

\* C4: pixel(x, y, c) sets (c true) or clears (c false) exactly bit
\* (Y mod 8) of the byte at X + (Y div 8) * width, X = x mod width,
\* Y = y mod height, and changes no other bit of the buffer.
C4_PixelAddressing ==
    [][ DrawStep("pixel") =>
          LET X == lastOp'.args[1] % 128
              Y == lastOp'.args[2] % 64
              on == IF lastOp'.args[3] # 0 THEN 1 ELSE 0
              at == X + (Y \div 8) * 128
          IN  \A j \in 0 .. 1023 :
                 IF j = at
                 THEN \A b \in 0 .. 7 :
                         Bit(buffer'[j], b) =
                            IF b = Y % 8 THEN on ELSE Bit(buffer[j], b)
                 ELSE buffer'[j] = buffer[j] ]_vars

\* pixel(width, -1, true) has set the pixel (0, 63), and an earlier
\* pixel(0, 0, true) has been undone by pixel(width, height, false)
C4_Witness ==
    /\ lastOp = [op |-> "pixel", args |-> <<128, -1, 1>>]
    /\ buffer[896] = 128
    /\ buffer[0] = 0
    /\ \E j \in 0 .. 1023 : j # 896 /\ buffer[j] # 0

\* C5: init_display attempts every byte of its configuration sequence once
\* and in order, whatever writes fail, and does not raise.
C5_Sequence ==
    << 174, 32, 0, 64, 161, 168, 63, 200, 211, 0, 218, 18, 213, 128, 217, 241,
       219, 48, 129, 255, 164, 166, 173, 48, 141, 20, 175 >>

C5_InitDisplayAttemptsAll ==
    /\ pc = "init_display" =>
          /\ raised = "none"
          /\ idx \in 1 .. 27
          /\ log = [k \in 1 .. idx - 1 |-> [reg |-> 128, data |-> <<C5_Sequence[k]>>]]
    /\ (pc = "idle" /\ lastOp.op = "init_display") =>
          /\ raised = "none"
          /\ log = [k \in 1 .. 27 |-> [reg |-> 128, data |-> <<C5_Sequence[k]>>]]

\* init_display has completed although one of its writes failed
C5_Witness ==
    /\ pc = "idle"
    /\ lastOp.op = "init_display"
    /\ faulted
    /\ ~comms_err
    /\ Len(log) = 27

\* C6: after n updates of a graph of width w >= 1 the sample list holds the
\* min(n, w) most recent values, most recent first.
C6_GraphKeepsNewest ==
    LET n == Len(pushed)
        kept == IF n < graph.width THEN n ELSE graph.width
    IN  /\ Len(graph.data) = kept
        /\ Len(graph.data) <= graph.width
        /\ \A k \in 1 .. kept : graph.data[k] = pushed[n - k + 1]

\* width 5, seven pushes: pushes 3..7 are kept, and the two evicted are the
\* largest values pushed
C6_Witness ==
    /\ graph.width = 5
    /\ pushed = <<20, 20, 7, 20, 7, 7, 7>>
    /\ graph.data = <<7, 7, 7, 20, 7>>

\* C7: load_pbm of a packed 8x8 pattern on a blank surface completes
\* without error and sets exactly the pattern's pixels, each where the
\* standard most-significant-bit-first unpacking puts it.
C7_ImportRoundTrip ==
    [][ ( /\ DrawStep("load_pbm")
          /\ buffer = Blank
          /\ lastOp'.args[1][2] \in {"8x8", "surface"}
          /\ lastOp'.args[2] = 1 )
        => /\ raised' = "none"
           /\ \A x \in 0 .. 127, y \in 0 .. 63 :
                 (GetPixel(buffer', x, y) = 1)
                    <=> (<<x, y>> \in Patterns[lastOp'.args[1][1]]) ]_vars

\* the one-pixel pattern, packed in a surface-sized image, has been loaded
\* on a blank surface: the pixel is at column 1 instead of column 0
C7_Witness ==
    /\ lastOp = [op |-> "load_pbm", args |-> << <<1, "surface">>, 1 >>]
    /\ raised = "none"
    /\ \A x \in 0 .. 127, y \in 0 .. 63 :
          (GetPixel(buffer, x, y) = 1) <=> (x = 1 /\ y = 0)

\* C8: with the font file missing, text is a no-op: it returns without
\* raising and leaves the buffer unchanged.
C8_TextWithoutFontIsNoOp ==
    [][ (DrawStep("text") /\ ~fontPresent)
        => (raised' = "none" /\ buffer' = buffer /\ char_cols' = NoGlyphs) ]_vars

\* text("A", 0, 0) with the font file missing has raised KeyError
C8_Witness ==
    /\ lastOp.op = "text"
    /\ lastOp.args[1] = <<65>>
    /\ ~fontPresent
    /\ char_cols = NoGlyphs
    /\ raised = "KeyError"

\* C9: line between in-bounds endpoints with x1 = x2 or y1 = y2, in either
\* order, colour true, sets exactly the pixels of the segment, endpoints
\* included, and changes no other pixel.
C9_AxisAlignedLineExact ==
    [][ ( /\ DrawStep("line")
          /\ lastOp'.args[1] = lastOp'.args[3] \/ lastOp'.args[2] = lastOp'.args[4]
          /\ lastOp'.args[5] = 1
          /\ \A k \in {1, 3} : lastOp'.args[k] \in 0 .. 127
          /\ \A k \in {2, 4} : lastOp'.args[k] \in 0 .. 63 )
        => LET a == lastOp'.args
               xlo == IF a[1] < a[3] THEN a[1] ELSE a[3]
               xhi == IF a[1] < a[3] THEN a[3] ELSE a[1]
               ylo == IF a[2] < a[4] THEN a[2] ELSE a[4]
               yhi == IF a[2] < a[4] THEN a[4] ELSE a[2]
           IN  \A j \in 0 .. 1023 :
                  IF j % 128 \in xlo .. xhi
                     /\ j \div 128 \in (ylo \div 8) .. (yhi \div 8)
                  THEN \A b \in 0 .. 7 :
                          Bit(buffer'[j], b) =
                             IF (j \div 128) * 8 + b \in ylo .. yhi
                             THEN 1
                             ELSE Bit(buffer[j], b)
                  ELSE buffer'[j] = buffer[j] ]_vars

\* line(10, 0, 0, 0, true) on a blank surface: (0,0)..(10,0) and nothing else
C9_Witness ==
    /\ lastOp = [op |-> "line", args |-> <<10, 0, 0, 0, 1>>]
    /\ \A x \in 0 .. 10 : buffer[x] = 1
    /\ \A j \in 11 .. 1023 : buffer[j] = 0

\* C10 as stated: circ, filled, r = 0, centre in bounds, paints exactly the
\* centre pixel.
C10_RadiusZeroPaintsCentre ==
    [][ ( /\ DrawStep("circ")
          /\ lastOp'.args[3] = 0
          /\ lastOp'.args[4] # 0 )
        => LET at == lastOp'.args[1] + (lastOp'.args[2] \div 8) * 128
               bit == lastOp'.args[2] % 8
           IN  \A j \in 0 .. 1023 :
                  IF j = at
                  THEN \A b \in 0 .. 7 :
                          Bit(buffer'[j], b) =
                             IF b = bit THEN 1 ELSE Bit(buffer[j], b)
                  ELSE buffer'[j] = buffer[j] ]_vars

\* C10 amended: circ, filled, centre in bounds, paints nothing for r = 0
\* and exactly the centre pixel for r = 1; no other pixel changes.
C10_FilledCircleSmallRadius ==
    [][ ( /\ DrawStep("circ")
          /\ lastOp'.args[3] \in {0, 1}
          /\ lastOp'.args[4] # 0 )
        => LET at == lastOp'.args[1] + (lastOp'.args[2] \div 8) * 128
               bit == lastOp'.args[2] % 8
           IN  IF lastOp'.args[3] = 0
               THEN buffer' = buffer
               ELSE \A j \in 0 .. 1023 :
                       IF j = at
                       THEN \A b \in 0 .. 7 :
                               Bit(buffer'[j], b) =
                                  IF b = bit THEN 1 ELSE Bit(buffer[j], b)
                       ELSE buffer'[j] = buffer[j] ]_vars

\* circ(0, 5, 0, filled) has returned on a surface fill_rect(4, 4, 3, 2)
\* has just modified: the rectangle is there and the centre pixel is off
C10_Witness ==
    /\ lastOp = [op |-> "circ", args |-> <<0, 5, 0, 1, 1>>]
    /\ calls = 2
    /\ GetPixel(buffer, 0, 5) = 0
    /\ \A x \in 0 .. 127, y \in 0 .. 63 :
          (GetPixel(buffer, x, y) = 1) <=> (x \in 4 .. 7 /\ y \in 4 .. 5)

====
